---------------------------- MODULE Spec2Model ----------------------------
(***************************************************************************)
(* SoftWireSTM32: a bit-banged single-master I2C driver.                   *)
(*                                                                         *)
(* WireBase (src/src/WireBase.cpp) stages bytes and owns the transaction   *)
(* descriptor itc_msg; SoftWire (src/src/SoftWire.cpp) implements          *)
(* process() by toggling the two open-drain lines SCL and SDA.             *)
(*                                                                         *)
(* One action per public call.  Each call that touches the bus computes    *)
(* the complete sequence of line operations it performs (wire) and of bus  *)
(* primitives it invokes (prims); both are kept in the state, together     *)
(* with a record of the call (call), so that properties of a whole call    *)
(* are state predicates.                                                   *)
(*                                                                         *)
(* The object has static storage duration (the library's bus instance is   *)
(* a global), so every member starts zeroed.  A load or store outside a    *)
(* buffer is undefined behaviour: the model records it in fault and does   *)
(* not follow the execution any further.                                   *)
(***************************************************************************)
EXTENDS Integers, Sequences, FiniteSets, TLC

VARIABLES
    tx_buf,          \* uint8_t tx_buf[I2C_TXRX_BUFFER_SIZE], 0-based function
    tx_buf_idx,      \* next free slot of tx_buf
    tx_buf_overflow, \* a write was dropped
    rx_buf,          \* uint8_t rx_buf[I2C_TXRX_BUFFER_SIZE], 0-based function
    rx_buf_idx,      \* read cursor
    rx_buf_len,      \* number of bytes held
    itc_msg,         \* the transaction descriptor
    i2c_delay,       \* pacing value handed to I2C_Delay
    pinmode,         \* mode of both pins: "INPUT" or "OUTPUT_OPEN_DRAIN"
    scl,             \* level the master drives on the clock pin
    sda,             \* level the master drives on the data pin
    wire,            \* line operations of the last call, in order
    prims,           \* bus primitives invoked by the last call, in order
    call,            \* the last call: operation, inputs, result
    fault,           \* an out-of-bounds access has happened
    run              \* a process() in progress, line operation by line operation

vars == << tx_buf, tx_buf_idx, tx_buf_overflow, rx_buf, rx_buf_idx, rx_buf_len,
           itc_msg, i2c_delay, pinmode, scl, sda, wire, prims, call, fault,
           run >>

---------------------------------------------------------------------------
(* Bounds and constants *)

\* Capacity of tx_buf and of rx_buf (scaled down).
I2C_TXRX_BUFFER_SIZE == 2

\* Largest number of polls of the clock line that read low after the master
\* released it (clock stretching by the slave).
MaxStretch == 1

LOW == 0
HIGH == 1

I2C_READ == 1

I2C_MSG_READ == 1

SOFT_STANDARD == 3
SOFT_FAST == 1

I2C_OK == "I2C_OK"
I2C_NACK_ADDR == "I2C_NACK_ADDR"
I2C_NACK_DATA == "I2C_NACK_DATA"
I2C_DATA_TOO_LONG == "I2C_DATA_TOO_LONG"

\* Result of a call that did not return (out-of-bounds access).
NoReturn == "no return"

\* Values the caller stages and the slave sends.  0xB2 = 10110010 differs
\* from its bit reversal.
ByteVals == {1, 178}

\* Slave addresses the caller uses in the full model.
Addresses == {80}

\* Slave addresses the caller writes to in the write-side model.
WriteAddresses == {0, 80, 127}

\* Transfer counts the caller asks for.
Counts == 0 .. (I2C_TXRX_BUFFER_SIZE + 1)

\* The descriptor length is not allowed to grow past this in the model.
MaxLength == I2C_TXRX_BUFFER_SIZE + 1

\* The slave: the ordinal of the byte it does not acknowledge (0 = the
\* address byte, k = the k-th data byte, -1 = it acknowledges everything),
\* the bytes it sends when read, and how many polls it stretches each clock.
NoNack == 0 - 1

NoData == [ i \in 1 .. I2C_TXRX_BUFFER_SIZE |-> 255 ]

\* The slaves a master writing n bytes can tell apart: the master stops at
\* the first byte that is not acknowledged and samples no data bit.
WriteSlaves(n, stretch) ==
    [ nackAt : {NoNack} \cup (0 .. n),
      data   : {NoData},
      polls  : 0 .. stretch ]

\* The slaves a master reading n bytes can tell apart: the slave answers the
\* address byte alone, and sends bytes only once it has acknowledged it.
ReadSlaves(n, vals, stretch) ==
    [ nackAt : {0}, data : {NoData}, polls : 0 .. stretch ]
    \cup
    [ nackAt : {NoNack},
      data   : { [ i \in 1 .. I2C_TXRX_BUFFER_SIZE |-> IF i <= n THEN d[i] ELSE 255 ] :
                 d \in [1 .. I2C_TXRX_BUFFER_SIZE -> vals] },
      polls  : 0 .. stretch ]

\* The slaves a transfer of length bytes in the direction flags can tell
\* apart.
SlavesFor(flags, length, vals, stretch) ==
    IF flags = I2C_MSG_READ
    THEN ReadSlaves(length, vals, stretch)
    ELSE WriteSlaves(length, stretch)

SlaveAck(slave, n) == slave.nackAt # n

\* A slave that has run out of bytes leaves the data line released.
SlaveByte(slave, n) ==
    IF n \in DOMAIN slave.data THEN slave.data[n] ELSE 255

---------------------------------------------------------------------------
(* Bytes and bits *)

Pow2(k) == 2 ^ k

\* val & (1 << k), as 0 or 1
Bit(val, k) == (val \div Pow2(k)) % 2

\* val | bit, for bit 0 of an 8-bit val
OrBit0(val, bit) == (val \div 2) * 2 + (IF bit = 1 THEN 1 ELSE val % 2)

---------------------------------------------------------------------------
(* The lines.  A context c carries the levels the master drives, the log   *)
(* of line operations and of primitives, the pacing value and the slave's  *)
(* clock stretching.                                                       *)

Ctx(s_scl, s_sda, delay, polls) ==
    [ scl |-> s_scl, sda |-> s_sda, ev |-> << >>, prims |-> << >>,
      delay |-> delay, polls |-> polls ]

\* A line operation is logged as one number: the kind of operation and the
\* 8-bit value it carries (the delay handed to I2C_Delay, the level
\* written, the level read).
DELAY == 0
WSCL  == 1
WSDA  == 2
RSCL  == 3
RSDA  == 4

Ev(kind, v) == kind * 256 + v
Kind(e) == e \div 256
Val(e) == e % 256

\* The polls of the clock line after it was released: the slave holds it
\* low for polls polls, then it reads high.
StretchReads(polls) ==
    [ i \in 1 .. (polls + 1) |-> IF i <= polls THEN Ev(RSCL, 0) ELSE Ev(RSCL, 1) ]

\* Mutant: the clock line is written and never polled.
set_scl_no_wait(c, state) ==
    [ c EXCEPT !.scl = state,
               !.ev  = c.ev \o << Ev(DELAY, c.delay), Ev(WSCL, state) >> ]

set_scl(c, state) ==
    LET w == c.ev \o << Ev(DELAY, c.delay), Ev(WSCL, state) >>
    IN  [ c EXCEPT !.scl = state,
                   !.ev  = IF state = HIGH THEN w \o StretchReads(c.polls) ELSE w ]

\* Mutant: the pacing delay comes after the write of the data line.
set_sda_delay_after(c, state) ==
    [ c EXCEPT !.sda = state,
               !.ev  = c.ev \o << Ev(WSDA, state), Ev(DELAY, c.delay) >> ]

set_sda(c, state) ==
    [ c EXCEPT !.sda = state,
               !.ev  = c.ev \o << Ev(DELAY, c.delay), Ev(WSDA, state) >> ]

\* digitalReadFast(sda_pin) on an open-drain line: low if the master or the
\* slave pulls it low.
read_sda(c, slaveLevel) == IF c.sda = LOW THEN 0 ELSE slaveLevel

Prim(c, name, arg) == [ c EXCEPT !.prims = Append(c.prims, <<name, arg>>) ]

i2c_start(c) ==
    set_scl(set_sda(Prim(c, "start", 0), LOW), LOW)

\* Mutant: the stop condition without raising the clock.
i2c_stop_clock_low(c) ==
    set_sda(set_sda(Prim(c, "stop", 0), LOW), HIGH)

i2c_stop(c) ==
    set_sda(set_scl(set_sda(Prim(c, "stop", 0), LOW), HIGH), HIGH)

i2c_repeated_start(c) ==
    set_sda(set_scl(set_sda(Prim(c, "repeated_start", 0), HIGH), HIGH), LOW)

\* Mutant: a released data line taken for an acknowledge.
i2c_get_ack_inverted(c, slaveAck) ==
    LET c3  == set_scl(set_sda(set_scl(c, LOW), HIGH), HIGH)
        v   == read_sda(c3, IF slaveAck THEN 0 ELSE 1)
        c4  == [ c3 EXCEPT !.ev = Append(c3.ev, Ev(RSDA, v)) ]
        ret == (v # 0)
    IN  [ c   |-> Prim(set_scl(c4, LOW), "get_ack", IF ret THEN 1 ELSE 0),
          ret |-> ret ]

\* Returns [c, ret]: ret is TRUE when the data line was sampled low.
i2c_get_ack(c, slaveAck) ==
    LET c3  == set_scl(set_sda(set_scl(c, LOW), HIGH), HIGH)
        v   == read_sda(c3, IF slaveAck THEN 0 ELSE 1)
        c4  == [ c3 EXCEPT !.ev = Append(c3.ev, Ev(RSDA, v)) ]
        ret == (v = 0)
    IN  [ c   |-> Prim(set_scl(c4, LOW), "get_ack", IF ret THEN 1 ELSE 0),
          ret |-> ret ]

\* Mutant: the acknowledge pulls the data line low after it has raised the
\* clock line.
i2c_send_ack_clock_first(c) ==
    set_scl(set_sda(set_scl(Prim(c, "send_ack", 0), HIGH), LOW), LOW)

i2c_send_ack(c) ==
    set_scl(set_scl(set_sda(Prim(c, "send_ack", 0), LOW), HIGH), LOW)

i2c_send_nack(c) ==
    set_scl(set_scl(set_sda(Prim(c, "send_nack", 0), HIGH), HIGH), LOW)

RECURSIVE shift_in_loop(_, _, _, _)
shift_in_loop(c, i, data, slaveByte) ==
    IF i < 8
    THEN LET c1 == set_scl(c, HIGH)
             v  == read_sda(c1, Bit(slaveByte, 7 - i))
             c2 == [ c1 EXCEPT !.ev = Append(c1.ev, Ev(RSDA, v)) ]
             d  == IF v # 0 /\ Bit(data, 7 - i) = 0 THEN data + Pow2(7 - i) ELSE data
         IN  shift_in_loop(set_scl(c2, LOW), i + 1, d, slaveByte)
    ELSE [ c |-> c, ret |-> data ]

\* Returns [c, ret]: ret is the byte assembled from the eight samples.
i2c_shift_in(c, slaveByte) ==
    LET r == shift_in_loop(set_sda(c, HIGH), 0, 0, slaveByte)
    IN  [ c |-> Prim(r.c, "shift_in", r.ret), ret |-> r.ret ]

RECURSIVE shift_out_loop(_, _, _)

\* Mutant: least-significant bit first.
shift_out_loop_lsb(c, i, val) ==
    IF i < 8
    THEN shift_out_loop(
             set_scl(set_scl(set_sda(c, Bit(val, i)), HIGH), LOW), i + 1, val)
    ELSE c

shift_out_loop(c, i, val) ==
    IF i < 8
    THEN shift_out_loop(
             set_scl(set_scl(set_sda(c, Bit(val, 7 - i)), HIGH), LOW), i + 1, val)
    ELSE c

i2c_shift_out(c, val) == shift_out_loop(Prim(c, "shift_out", val), 0, val)

\* What a primitive appends to the logs and the levels it leaves do not
\* depend on the logs it starts from, so the effect of the three long
\* primitives on an empty log is tabulated and appended to the running log.
Delays == {SOFT_STANDARD, SOFT_FAST}

Fresh(delay, polls) == Ctx(HIGH, HIGH, delay, polls)

Apply(c, d) ==
    [ c EXCEPT !.scl = d.scl, !.sda = d.sda,
               !.ev = c.ev \o d.ev, !.prims = c.prims \o d.prims ]

ShiftOutTable[val \in 0 .. 255, delay \in Delays, polls \in 0 .. MaxStretch] ==
    i2c_shift_out(Fresh(delay, polls), val)

ShiftInTable[slaveByte \in 0 .. 255, delay \in Delays, polls \in 0 .. MaxStretch] ==
    i2c_shift_in(Fresh(delay, polls), slaveByte)

GetAckTable[slaveAck \in BOOLEAN, delay \in Delays, polls \in 0 .. MaxStretch] ==
    i2c_get_ack(Fresh(delay, polls), slaveAck)

shift_out(c, val) == Apply(c, ShiftOutTable[val, c.delay, c.polls])

shift_in(c, slaveByte) ==
    LET r == ShiftInTable[slaveByte, c.delay, c.polls]
    IN  [ c |-> Apply(c, r.c), ret |-> r.ret ]

get_ack(c, slaveAck) ==
    LET r == GetAckTable[slaveAck, c.delay, c.polls]
    IN  [ c |-> Apply(c, r.c), ret |-> r.ret ]

---------------------------------------------------------------------------
(* Memory.  itc_msg.data points into tx_buf or rx_buf (or is null, as      *)
(* zeroed); element i of it is cell off + i of that buffer.                *)

NullPtr == [ buf |-> "null", off |-> 0 ]

InBuffer(ptr, i) ==
    /\ ptr.buf # "null"
    /\ ptr.off + i < I2C_TXRX_BUFFER_SIZE

\* bufs = [tx |-> tx_buf, rx |-> rx_buf]
Load(bufs, ptr, i) ==
    IF ptr.buf = "tx" THEN bufs.tx[ptr.off + i] ELSE bufs.rx[ptr.off + i]

Store(bufs, ptr, i, v) ==
    IF ptr.buf = "tx"
    THEN [ bufs EXCEPT !.tx[ptr.off + i] = v ]
    ELSE [ bufs EXCEPT !.rx[ptr.off + i] = v ]

---------------------------------------------------------------------------
(* SoftWire::process(uint8_t stop).  Returns the descriptor, the buffers,  *)
(* the line context, the status and whether the call ran out of a buffer.  *)

Outcome(msg, bufs, c, ret, flt) ==
    [ msg |-> msg, bufs |-> bufs, c |-> c, ret |-> ret, fault |-> flt ]

\* Mutant: the address byte without the shift that makes room for the
\* direction bit.
sla_addr_unshifted(msg) ==
    IF msg.flags = I2C_MSG_READ THEN OrBit0(msg.addr % 256, I2C_READ) ELSE msg.addr % 256

\* uint8_t sla_addr = (itc_msg.addr << 1); if (READ) sla_addr |= I2C_READ;
sla_addr(msg) ==
    LET shifted == (msg.addr * 2) % 256
    IN  IF msg.flags = I2C_MSG_READ THEN OrBit0(shifted, I2C_READ) ELSE shifted

\* Mutant: a successful transfer ends with a repeated start whatever the
\* stop argument.
finish_never_stop(msg, bufs, c, stop) ==
    Outcome(msg, bufs, i2c_repeated_start(c), I2C_OK, FALSE)

\* The final stop or repeated start and the return of I2C_OK.
finish(msg, bufs, c, stop) ==
    Outcome(msg, bufs, IF stop THEN i2c_stop(c) ELSE i2c_repeated_start(c),
            I2C_OK, FALSE)

RECURSIVE receive(_, _, _, _, _)

\* Mutant: every received byte is acknowledged, the last one too.
receive_always_ack(msg, bufs, c, stop, slave) ==
    IF msg.xferred < msg.length
    THEN LET r    == shift_in(c, SlaveByte(slave, msg.xferred + 1))
             msg1 == [ msg EXCEPT !.xferred = msg.xferred + 1 ]
         IN  IF ~InBuffer(msg.data, msg.xferred)
             THEN Outcome(msg1, bufs, r.c, NoReturn, TRUE)
             ELSE receive(msg1,
                          Store(bufs, msg.data, msg.xferred, r.ret),
                          i2c_send_ack(r.c),
                          stop, slave)
    ELSE finish(msg, bufs, c, stop)

receive(msg, bufs, c, stop, slave) ==
    IF msg.xferred < msg.length
    THEN LET r    == shift_in(c, SlaveByte(slave, msg.xferred + 1))
             msg1 == [ msg EXCEPT !.xferred = msg.xferred + 1 ]
         IN  IF ~InBuffer(msg.data, msg.xferred)
             THEN Outcome(msg1, bufs, r.c, NoReturn, TRUE)
             ELSE receive(msg1,
                          Store(bufs, msg.data, msg.xferred, r.ret),
                          IF msg1.xferred < msg1.length
                          THEN i2c_send_ack(r.c)
                          ELSE i2c_send_nack(r.c),
                          stop, slave)
    ELSE finish(msg, bufs, c, stop)

RECURSIVE send(_, _, _, _, _, _)

\* Mutant: a byte is counted as transferred before its acknowledge is
\* sampled.
send_count_first(msg, bufs, c, i, stop, slave) ==
    IF i < msg.length
    THEN IF ~InBuffer(msg.data, i)
         THEN Outcome(msg, bufs, c, NoReturn, TRUE)
         ELSE LET a == get_ack(shift_out(c, Load(bufs, msg.data, i)),
                               SlaveAck(slave, i + 1))
                  m == [ msg EXCEPT !.xferred = msg.xferred + 1 ]
              IN  IF ~a.ret
                  THEN Outcome(m, bufs, i2c_stop(a.c), I2C_NACK_DATA, FALSE)
                  ELSE send(m, bufs, a.c, i + 1, stop, slave)
    ELSE finish(msg, bufs, c, stop)

send(msg, bufs, c, i, stop, slave) ==
    IF i < msg.length
    THEN IF ~InBuffer(msg.data, i)
         THEN Outcome(msg, bufs, c, NoReturn, TRUE)
         ELSE LET a == get_ack(shift_out(c, Load(bufs, msg.data, i)),
                                   SlaveAck(slave, i + 1))
              IN  IF ~a.ret
                  THEN Outcome(msg, bufs, i2c_stop(a.c), I2C_NACK_DATA, FALSE)
                  ELSE send([ msg EXCEPT !.xferred = msg.xferred + 1 ],
                            bufs, a.c, i + 1, stop, slave)
    ELSE finish(msg, bufs, c, stop)

process(msg0, bufs, c0, stop, slave) ==
    LET msg == [ msg0 EXCEPT !.xferred = 0 ]
        a   == get_ack(shift_out(i2c_start(c0), sla_addr(msg)),
                           SlaveAck(slave, 0))
    IN  IF ~a.ret
        THEN Outcome(msg, bufs, i2c_stop(a.c), I2C_NACK_ADDR, FALSE)
        ELSE IF msg.flags = I2C_MSG_READ
             THEN receive(msg, bufs, a.c, stop, slave)
             ELSE send(msg, bufs, a.c, 0, stop, slave)

\* Mutant: the legacy form asks for a repeated start.
process_legacy_no_stop(msg, bufs, c, slave) == process(msg, bufs, c, FALSE, slave)

\* SoftWire::process(): the legacy form always sends a stop.
process_legacy(msg, bufs, c, slave) == process(msg, bufs, c, TRUE, slave)

---------------------------------------------------------------------------
(* The state *)

Zeroed == [ i \in 0 .. (I2C_TXRX_BUFFER_SIZE - 1) |-> 0 ]

Bufs == [ tx |-> tx_buf, rx |-> rx_buf ]

\* The record of a call: its name and argument, whether it ran process(),
\* the stop flag it passed, the status process() returned and what the call
\* returned.
NoStatus == "none"

Call(op, arg, ran, stop, status, ret) ==
    [ op |-> op, arg |-> arg, ran |-> ran, stop |-> stop, status |-> status,
      ret |-> ret ]

\* A call that does not run process().
Plain(op, arg, ret) == Call(op, arg, FALSE, FALSE, NoStatus, ret)

\* No process() in progress.  todo holds the line operations a process() in
\* progress has still to make, out what it yields when it returns, held
\* whether the slave holds the clock line low, low whether the master's last
\* poll of the clock line read low.
NoRun ==
    [ pc |-> "idle", todo |-> << >>, out |-> << >>, held |-> FALSE,
      low |-> FALSE ]

Init ==
    /\ tx_buf = Zeroed
    /\ tx_buf_idx = 0
    /\ tx_buf_overflow = FALSE
    /\ rx_buf = Zeroed
    /\ rx_buf_idx = 0
    /\ rx_buf_len = 0
    /\ itc_msg = [ addr |-> 0, flags |-> 0, length |-> 0, xferred |-> 0,
                   data |-> NullPtr ]
    /\ i2c_delay = SOFT_STANDARD
    /\ pinmode = "INPUT"
    /\ scl = HIGH
    /\ sda = HIGH
    /\ wire = << >>
    /\ prims = << >>
    /\ call = Plain("SoftWire", 0, 0)
    /\ fault = FALSE
    /\ run = NoRun

\* No process() is in progress: the caller is free to make a call.
Idle == run.pc = "idle"

\* The bus has been initialised, no undefined behaviour has happened and the
\* caller is free to make a call.
Ready == pinmode = "OUTPUT_OPEN_DRAIN" /\ ~fault /\ Idle

\* A call that does not touch the lines.
NoBus == wire' = << >> /\ prims' = << >> /\ UNCHANGED << scl, sda >>

---------------------------------------------------------------------------
(* The calls *)

\* Mutant: begin() releases the clock line only.
begin_clock_only(polls) ==
    \E c \in { set_scl(Ctx(scl, sda, i2c_delay, polls), HIGH) } :
        /\ ~fault
        /\ Idle
        /\ tx_buf_idx' = 0
        /\ tx_buf_overflow' = FALSE
        /\ rx_buf_idx' = 0
        /\ rx_buf_len' = 0
        /\ pinmode' = "OUTPUT_OPEN_DRAIN"
        /\ scl' = c.scl
        /\ sda' = c.sda
        /\ wire' = c.ev
        /\ prims' = c.prims
        /\ call' = Plain("begin", 0, 0)
        /\ UNCHANGED << tx_buf, rx_buf, itc_msg, i2c_delay, fault >>
        /\ UNCHANGED run

\* SoftWire::begin
begin(polls) ==
    \E c \in { set_sda(set_scl(Ctx(scl, sda, i2c_delay, polls), HIGH), HIGH) } :
        /\ ~fault
        /\ Idle
        /\ tx_buf_idx' = 0
        /\ tx_buf_overflow' = FALSE
        /\ rx_buf_idx' = 0
        /\ rx_buf_len' = 0
        /\ pinmode' = "OUTPUT_OPEN_DRAIN"
        /\ scl' = c.scl
        /\ sda' = c.sda
        /\ wire' = c.ev
        /\ prims' = c.prims
        /\ call' = Plain("begin", 0, 0)
        /\ UNCHANGED << tx_buf, rx_buf, itc_msg, i2c_delay, fault >>
        /\ UNCHANGED run

\* SoftWire::end
end ==
    /\ Ready
    /\ pinmode' = "INPUT"
    /\ call' = Plain("end", 0, 0)
    /\ NoBus
    /\ UNCHANGED << tx_buf, tx_buf_idx, tx_buf_overflow, rx_buf, rx_buf_idx,
                    rx_buf_len, itc_msg, i2c_delay, fault >>
    /\ UNCHANGED run

\* SoftWire::setClock
setClock(frequencyHz) ==
    /\ Ready
    /\ i2c_delay' = IF frequencyHz = 400000 THEN SOFT_FAST ELSE SOFT_STANDARD
    /\ call' = Plain("setClock", frequencyHz, 0)
    /\ NoBus
    /\ UNCHANGED << tx_buf, tx_buf_idx, tx_buf_overflow, rx_buf, rx_buf_idx,
                    rx_buf_len, itc_msg, pinmode, fault >>
    /\ UNCHANGED run

\* WireBase::beginTransmission
beginTransmission(slave_address) ==
    /\ Ready
    /\ itc_msg' = [ itc_msg EXCEPT !.addr = slave_address,
                                   !.data = [ buf |-> "tx", off |-> tx_buf_idx ],
                                   !.length = 0,
                                   !.flags = 0 ]
    /\ call' = Plain("beginTransmission", slave_address, 0)
    /\ NoBus
    /\ UNCHANGED << tx_buf, tx_buf_idx, tx_buf_overflow, rx_buf, rx_buf_idx,
                    rx_buf_len, i2c_delay, pinmode, fault >>
    /\ UNCHANGED run

\* Mutant: the full buffer is noticed one byte late.
tx_full_late(idx) == idx > I2C_TXRX_BUFFER_SIZE

\* tx_buf_idx == I2C_TXRX_BUFFER_SIZE
tx_full(idx) == idx = I2C_TXRX_BUFFER_SIZE

\* WireBase::write(uint8_t)
write(value) ==
    /\ Ready
    /\ tx_full(tx_buf_idx) \/ itc_msg.length < MaxLength
    /\ IF tx_full(tx_buf_idx)
       THEN /\ tx_buf_overflow' = TRUE
            /\ UNCHANGED << tx_buf, tx_buf_idx, itc_msg >>
       ELSE /\ tx_buf' = [ tx_buf EXCEPT ![tx_buf_idx] = value ]
            /\ tx_buf_idx' = tx_buf_idx + 1
            /\ itc_msg' = [ itc_msg EXCEPT !.length = itc_msg.length + 1 ]
            /\ UNCHANGED tx_buf_overflow
    /\ call' = Plain("write", value, 0)
    /\ NoBus
    /\ UNCHANGED << rx_buf, rx_buf_idx, rx_buf_len, i2c_delay, pinmode, fault >>
    /\ UNCHANGED run

\* The effect of a run of process() on the descriptor, the buffers and the
\* lines.
Processed(out) ==
    /\ tx_buf' = out.bufs.tx
    /\ rx_buf' = out.bufs.rx
    /\ scl' = out.c.scl
    /\ sda' = out.c.sda
    /\ wire' = out.c.ev
    /\ prims' = out.c.prims
    /\ fault' = out.fault

\* WireBase::endTransmission
endTransmission(slave) ==
    /\ Ready
    /\ IF tx_buf_overflow
       THEN /\ call' = Plain("endTransmission", 0, I2C_DATA_TOO_LONG)
            /\ NoBus
            /\ UNCHANGED << tx_buf, tx_buf_idx, tx_buf_overflow, rx_buf,
                            itc_msg, fault >>
       ELSE \E out \in { process_legacy(itc_msg, Bufs,
                                        Ctx(scl, sda, i2c_delay, slave.polls), slave) } :
                /\ Processed(out)
                /\ itc_msg' = out.msg
                /\ IF out.fault
                   THEN UNCHANGED << tx_buf_idx, tx_buf_overflow >>
                   ELSE tx_buf_idx' = 0 /\ tx_buf_overflow' = FALSE
                /\ call' = Call("endTransmission", 0, TRUE, TRUE, out.ret, out.ret)
    /\ UNCHANGED << rx_buf_idx, rx_buf_len, i2c_delay, pinmode >>
    /\ UNCHANGED run

\* WireBase::requestFrom(uint8_t, int)
requestFrom(address, num_bytes, slave) ==
    /\ Ready
    /\ \E out \in { process_legacy(
                      [ itc_msg EXCEPT
                          !.addr = address,
                          !.flags = I2C_MSG_READ,
                          !.length = IF num_bytes > I2C_TXRX_BUFFER_SIZE
                                     THEN I2C_TXRX_BUFFER_SIZE ELSE num_bytes,
                          !.data = [ buf |-> "rx", off |-> rx_buf_idx ] ],
                      Bufs, Ctx(scl, sda, i2c_delay, slave.polls), slave) } :
        /\ Processed(out)
        /\ IF out.fault
           THEN /\ itc_msg' = out.msg
                /\ UNCHANGED rx_buf_len
                /\ call' = Call("requestFrom", num_bytes, TRUE, TRUE, out.ret, 0)
           ELSE /\ itc_msg' = [ out.msg EXCEPT !.flags = 0 ]
                /\ rx_buf_len' = (rx_buf_len + out.msg.xferred) % 256
                /\ call' = Call("requestFrom", num_bytes, TRUE, TRUE, out.ret,
                                (rx_buf_len + out.msg.xferred) % 256)
    /\ UNCHANGED << tx_buf_idx, tx_buf_overflow, rx_buf_idx, i2c_delay, pinmode >>
    /\ UNCHANGED run

\* WireBase::available, in uint8_t
available == (rx_buf_len - rx_buf_idx) % 256

\* Mutant: the drained test of read() misses the equal case.
rx_drained_late(idx, len) == idx > len

\* rx_buf_idx == rx_buf_len
rx_drained(idx, len) == idx = len

\* WireBase::read
read ==
    /\ Ready
    /\ IF rx_drained(rx_buf_idx, rx_buf_len)
       THEN /\ rx_buf_idx' = 0
            /\ rx_buf_len' = 0
            /\ call' = Plain("read", 0, 0)
            /\ UNCHANGED fault
       ELSE IF rx_buf_idx >= I2C_TXRX_BUFFER_SIZE
       THEN /\ fault' = TRUE
            /\ call' = Plain("read", 0, 0)
            /\ UNCHANGED << rx_buf_idx, rx_buf_len >>
       ELSE IF rx_buf_idx = rx_buf_len - 1
       THEN /\ rx_buf_idx' = 0
            /\ rx_buf_len' = 0
            /\ call' = Plain("read", 0, rx_buf[rx_buf_idx])
            /\ UNCHANGED fault
       ELSE /\ rx_buf_idx' = rx_buf_idx + 1
            /\ call' = Plain("read", 0, rx_buf[rx_buf_idx])
            /\ UNCHANGED << rx_buf_len, fault >>
    /\ NoBus
    /\ UNCHANGED << tx_buf, tx_buf_idx, tx_buf_overflow, rx_buf, itc_msg,
                    i2c_delay, pinmode >>
    /\ UNCHANGED run

\* A derived class calls the protected process(uint8_t) on the descriptor,
\* in the direction it selects, and clears the direction afterwards as
\* requestFrom does.
ProcessCall(flags, stop, slave) ==
    /\ Ready
    /\ \E out \in { process([ itc_msg EXCEPT !.flags = flags ], Bufs,
                            Ctx(scl, sda, i2c_delay, slave.polls), stop, slave) } :
        /\ Processed(out)
        /\ itc_msg' = [ out.msg EXCEPT !.flags = 0 ]
        /\ call' = Call(IF flags = I2C_MSG_READ THEN "process read" ELSE "process write",
                        0, TRUE, stop, out.ret, out.ret)
    /\ UNCHANGED << tx_buf_idx, tx_buf_overflow, rx_buf_idx, rx_buf_len,
                    i2c_delay, pinmode >>
    /\ UNCHANGED run

---------------------------------------------------------------------------
(* process(uint8_t stop) line operation by line operation, with a slave    *)
(* that holds the clock line for as long as it likes.  The operations and  *)
(* the samples of the data line are those of process() above with a slave  *)
(* that does not stretch; each poll of the clock line reads what the slave *)
(* does at that moment.                                                    *)

\* Length of the transfers that are run line operation by line operation.
StretchLength == 1

\* The caller enters process(uint8_t) and from then on is inside it.  The
\* status process() returns is recorded as call.status.
ProcessEnter(flags, stop, slave) ==
    /\ Ready
    /\ \E out \in { process([ itc_msg EXCEPT !.flags = flags ], Bufs,
                            Ctx(scl, sda, i2c_delay, 0), stop, slave) } :
        /\ call' = Call(IF flags = I2C_MSG_READ THEN "process read" ELSE "process write",
                        0, TRUE, stop, NoReturn, 0)
        /\ fault' = out.fault
        /\ IF out.fault
           THEN UNCHANGED << run, itc_msg >>
           ELSE /\ run' = [ run EXCEPT !.pc = "running", !.todo = out.c.ev,
                                       !.out = out, !.low = FALSE ]
                /\ itc_msg' = [ itc_msg EXCEPT !.flags = flags, !.xferred = 0 ]
    /\ wire' = << >>
    /\ prims' = << >>
    /\ UNCHANGED << tx_buf, tx_buf_idx, tx_buf_overflow, rx_buf, rx_buf_idx,
                    rx_buf_len, i2c_delay, pinmode, scl, sda >>

\* The master is in the loop of set_scl(HIGH) that polls the clock line.
Waiting ==
    /\ run.pc = "running"
    /\ run.todo # << >>
    /\ Kind(Head(run.todo)) = RSCL

\* The next pacing delay, line write or sample of the data line.
LineStep ==
    /\ run.pc = "running"
    /\ run.todo # << >>
    /\ Kind(Head(run.todo)) # RSCL
    /\ wire' = Append(wire, Head(run.todo))
    /\ scl' = IF Kind(Head(run.todo)) = WSCL THEN Val(Head(run.todo)) ELSE scl
    /\ sda' = IF Kind(Head(run.todo)) = WSDA THEN Val(Head(run.todo)) ELSE sda
    /\ run' = [ run EXCEPT !.todo = Tail(run.todo) ]
    /\ UNCHANGED << tx_buf, tx_buf_idx, tx_buf_overflow, rx_buf, rx_buf_idx,
                    rx_buf_len, itc_msg, i2c_delay, pinmode, prims, call, fault >>

\* digitalReadFast(scl_pin) reads high: the loop of set_scl ends.
PollHigh ==
    /\ Waiting
    /\ ~run.held
    /\ wire' = Append(wire, Ev(RSCL, 1))
    /\ run' = [ run EXCEPT !.todo = Tail(run.todo), !.low = FALSE ]
    /\ UNCHANGED << tx_buf, tx_buf_idx, tx_buf_overflow, rx_buf, rx_buf_idx,
                    rx_buf_len, itc_msg, i2c_delay, pinmode, scl, sda, prims,
                    call, fault >>

\* Mutant: the master polls the clock line once and goes on although it
\* read low.
PollLowGoesOn ==
    /\ Waiting
    /\ run.held
    /\ wire' = Append(wire, Ev(RSCL, 0))
    /\ run' = [ run EXCEPT !.todo = Tail(run.todo) ]
    /\ UNCHANGED << tx_buf, tx_buf_idx, tx_buf_overflow, rx_buf, rx_buf_idx,
                    rx_buf_len, itc_msg, i2c_delay, pinmode, scl, sda, prims,
                    call, fault >>

\* digitalReadFast(scl_pin) reads low: the loop of set_scl goes round.
\* Further polls that read low leave the state as it is.
PollLow ==
    /\ Waiting
    /\ run.held
    /\ ~run.low
    /\ run' = [ run EXCEPT !.low = TRUE ]
    /\ UNCHANGED << tx_buf, tx_buf_idx, tx_buf_overflow, rx_buf, rx_buf_idx,
                    rx_buf_len, itc_msg, i2c_delay, pinmode, scl, sda, wire,
                    prims, call, fault >>

\* process(uint8_t) returns its status.
ProcessReturn ==
    /\ run.pc = "running"
    /\ run.todo = << >>
    /\ tx_buf' = run.out.bufs.tx
    /\ rx_buf' = run.out.bufs.rx
    /\ itc_msg' = [ run.out.msg EXCEPT !.flags = 0 ]
    /\ prims' = run.out.c.prims
    /\ call' = [ call EXCEPT !.status = run.out.ret ]
    /\ run' = [ NoRun EXCEPT !.held = run.held ]
    /\ UNCHANGED << tx_buf_idx, tx_buf_overflow, rx_buf_idx, rx_buf_len,
                    i2c_delay, pinmode, scl, sda, wire, fault >>

\* The slave starts to hold the clock line while the master drives it low.
SlaveHold ==
    /\ run.pc = "running"
    /\ scl = LOW
    /\ ~run.held
    /\ run' = [ run EXCEPT !.held = TRUE ]
    /\ UNCHANGED << tx_buf, tx_buf_idx, tx_buf_overflow, rx_buf, rx_buf_idx,
                    rx_buf_len, itc_msg, i2c_delay, pinmode, scl, sda, wire,
                    prims, call, fault >>

\* The slave releases the clock line.
SlaveRelease ==
    /\ run.held
    /\ run' = [ run EXCEPT !.held = FALSE ]
    /\ UNCHANGED << tx_buf, tx_buf_idx, tx_buf_overflow, rx_buf, rx_buf_idx,
                    rx_buf_len, itc_msg, i2c_delay, pinmode, scl, sda, wire,
                    prims, call, fault >>

\* The steps of the master inside process(uint8_t).
Master == LineStep \/ PollHigh \/ PollLow \/ ProcessReturn

---------------------------------------------------------------------------
\* The calls, by the side of the driver they belong to.  The caller stages
\* bytes of vals, the slave sends bytes of vals and stretches the clock for
\* at most stretch polls.
Setup(stretch) ==
    \E polls \in 0 .. stretch : begin(polls)

WriteSide(addrs, vals, stretch) ==
    \/ \E a \in addrs : beginTransmission(a)
    \/ \E v \in vals : write(v)
    \/ \E slave \in SlavesFor(itc_msg.flags, itc_msg.length, vals, stretch) :
           endTransmission(slave)

\* Requests are made while rx_buf_len is at most the capacity, which keeps
\* the 8-bit rx_buf_len from running through all its values.
ReadSide(addrs, vals, stretch) ==
    \/ /\ rx_buf_len <= I2C_TXRX_BUFFER_SIZE
       /\ \E a \in addrs, n \in Counts :
              \E slave \in ReadSlaves(n, vals, stretch) : requestFrom(a, n, slave)
    \/ read

Derived(vals, stretch) ==
    \E f \in {0, I2C_MSG_READ}, stop \in BOOLEAN :
        \E slave \in SlavesFor(f, itc_msg.length, vals, stretch) :
            ProcessCall(f, stop, slave)

\* Every call in every order; all data bytes are zero and the slave does not
\* stretch the clock.
Next ==
    \/ Setup(0)
    \/ WriteSide(Addresses, {0}, 0)
    \/ ReadSide(Addresses, {0}, 0)
    \/ Derived({0}, 0)
    \/ end

Spec == Init /\ [][Next]_vars

\* The public calls of WireBase alone, in every order.
NextPublic ==
    \/ Setup(0)
    \/ WriteSide(Addresses, {0}, 0)
    \/ ReadSide(Addresses, {0}, 0)

SpecPublic == Init /\ [][NextPublic]_vars

\* The write side with data: staging and committing bytes of ByteVals to a
\* slave that stretches the clock.
NextWrite ==
    \/ Setup(MaxStretch)
    \/ WriteSide(WriteAddresses, ByteVals, MaxStretch)

SpecWrite == Init /\ [][NextWrite]_vars

\* The read side with data: requesting and consuming bytes of ByteVals.
NextRead ==
    \/ Setup(MaxStretch)
    \/ ReadSide(Addresses, ByteVals, MaxStretch)
    \/ \E f \in {100000, 400000} : setClock(f)

SpecRead == Init /\ [][NextRead]_vars

\* Requesting and consuming bytes of ByteVals from a slave that does not
\* stretch the clock.
NextDrain ==
    \/ Setup(0)
    \/ ReadSide(Addresses, ByteVals, 0)

SpecDrain == Init /\ [][NextDrain]_vars

\* Every 7-bit address, in both directions, with at most one byte moved.
NextAddr ==
    \/ Setup(0)
    \/ \E a \in 0 .. 127 : beginTransmission(a)
    \/ \E slave \in WriteSlaves(0, 0) : endTransmission(slave)
    \/ \E a \in 0 .. 127 : \E slave \in ReadSlaves(0, {0}, 0) : requestFrom(a, 0, slave)

SpecAddr == Init /\ [][NextAddr]_vars

\* The read side with rx_buf_len free to run through all its 8-bit values:
\* requests of every count in every state, all bytes zero.
NextRx ==
    \/ Setup(0)
    \/ \E a \in Addresses, n \in Counts :
           \E slave \in ReadSlaves(n, {0}, 0) : requestFrom(a, n, slave)
    \/ read

SpecRx == Init /\ [][NextRx]_vars

\* Transfers in both directions, with and without stop, at both pacing
\* values.
NextPace ==
    \/ Setup(0)
    \/ \E f \in {100000, 400000} : setClock(f)
    \/ \E a \in Addresses : beginTransmission(a)
    \/ write(0)
    \/ Derived({0}, 0)

SpecPace == Init /\ [][NextPace]_vars

\* Transfers of at most StretchLength bytes in both directions, run line
\* operation by line operation against a slave that stretches the clock.
NextStretch ==
    \/ Setup(0)
    \/ \E a \in Addresses : beginTransmission(a)
    \/ itc_msg.length < StretchLength /\ write(0)
    \/ \E f \in {0, I2C_MSG_READ}, stop \in BOOLEAN :
           \E slave \in SlavesFor(f, itc_msg.length, {0}, 0) :
               ProcessEnter(f, stop, slave)
    \/ LineStep
    \/ PollHigh
    \/ PollLow
    \/ ProcessReturn
    \/ SlaveHold
    \/ SlaveRelease

\* The processor keeps running the master, and the slave releases the
\* clock line in the end.
SpecStretch ==
    Init /\ [][NextStretch]_vars /\ WF_vars(Master) /\ WF_vars(SlaveRelease)

---------------------------------------------------------------------------
(* Reading the logs *)

\* The samples of the data line, in order.
Reads(w) == SelectSeq(w, LAMBDA e : Kind(e) = RSDA)

\* The polls of the clock line, in order.
ClockReads(w) == SelectSeq(w, LAMBDA e : Kind(e) = RSCL)

\* The number of line writes and line reads.
LineOps(w) == Len(SelectSeq(w, LAMBDA e : Kind(e) # DELAY))

\* The first sample of a transfer is the acknowledge bit of the address.
AddrNacked(w) == Reads(w) # << >> /\ Val(Reads(w)[1]) = 1

AllAcked(w) == \A i \in DOMAIN Reads(w) : Val(Reads(w)[i]) = 0

CountPrim(name) == Len(SelectSeq(prims, LAMBDA p : p[1] = name))

LastPrim == prims[Len(prims)][1]

\* The call returned from process().
Returned == call.ran /\ call.status # NoReturn

\* The eight bits of a byte, most significant first.
Bits8(v) == [ i \in 1 .. 8 |-> (v \div (2 ^ (8 - i))) % 2 ]

\* The master's writes of the data line and its rising edges of the clock
\* line, in order.
Drives(w) == SelectSeq(w, LAMBDA e : Kind(e) = WSDA \/ e = Ev(WSCL, HIGH))

\* The level of the data line after the first i of these operations; the
\* line idles released.
RECURSIVE LevelAfter(_, _)
LevelAfter(f, i) ==
    IF i = 0 THEN HIGH
    ELSE IF Kind(f[i]) = WSDA THEN Val(f[i])
    ELSE LevelAfter(f, i - 1)

\* The level the master drives on the data line at each rising edge it
\* makes on the clock line, in order.
RisingLevels(w) ==
    LET f == Drives(w)
        tagged == [ i \in 1 .. Len(f) |->
                      IF Kind(f[i]) = WSDA THEN 2 ELSE LevelAfter(f, i - 1) ]
    IN  SelectSeq(tagged, LAMBDA x : x # 2)

\* A written byte on the wire: its eight bits, then the released data line
\* of the acknowledge clock.
RECURSIVE Frames(_)
Frames(bytes) ==
    IF bytes = << >> THEN << >>
    ELSE Bits8(Head(bytes)) \o << HIGH >> \o Frames(Tail(bytes))

\* The n bytes the descriptor points at.
Pointed(buf, ptr, n) == [ i \in 1 .. n |-> buf[ptr.off + i - 1] ]

---------------------------------------------------------------------------
(* Claims *)

\* C1: whenever endTransmission, requestFrom or process(stop) returns, the
\* master has released the clock and the clock reads high; if process ran
\* with stop = false and returned I2C_OK the master holds data low,
\* otherwise (a stop was sent) it has released data high as well.
C1_BusLeftDefined ==
    /\ (Ready /\ call.op \in {"endTransmission", "requestFrom",
                              "process read", "process write"})
         => /\ scl = HIGH
            /\ \A i \in DOMAIN ClockReads(wire) :
                   i = Len(ClockReads(wire)) => Val(ClockReads(wire)[i]) = 1
    /\ Returned
         => IF ~call.stop /\ call.status = I2C_OK
            THEN sda = LOW /\ LastPrim = "repeated_start"
            ELSE sda = HIGH /\ LastPrim = "stop"

\* C1 witness: endTransmission returned I2C_NACK_DATA and both lines are
\* released.
C1_Witness ==
    /\ call.op = "endTransmission"
    /\ call.status = I2C_NACK_DATA
    /\ scl = HIGH
    /\ sda = HIGH

\* C2: when the slave leaves the address byte unacknowledged, process()
\* sends a stop, returns I2C_NACK_ADDR, has shifted no data byte in or out
\* and leaves xferred at 0, in either direction and for either stop flag.
C2_NackOnAddress ==
    (call.ran /\ AddrNacked(wire))
        => /\ call.status = I2C_NACK_ADDR
           /\ itc_msg.xferred = 0
           /\ Len(prims) = 4
           /\ prims[1][1] = "start"
           /\ prims[2][1] = "shift_out"
           /\ prims[3] = <<"get_ack", 0>>
           /\ prims[4][1] = "stop"
           /\ Len(Reads(wire)) = 1

\* C2 witness: a read without stop whose address byte was not acknowledged.
C2_Witness ==
    /\ call.op = "process read"
    /\ ~call.stop
    /\ AddrNacked(wire)
    /\ call.status = I2C_NACK_ADDR

\* C3: a write whose address byte and first K data bytes are acknowledged
\* and whose data byte K+1 is not returns I2C_NACK_DATA with xferred = K,
\* after shifting out exactly K+1 data bytes and sending a stop.
C3_PartialWrite ==
    LET r == Reads(wire)
    IN  (/\ call.op = "endTransmission"
         /\ Returned
         /\ Len(r) >= 2
         /\ \A i \in 1 .. (Len(r) - 1) : Val(r[i]) = 0
         /\ Val(r[Len(r)]) = 1)
            => /\ call.ret = I2C_NACK_DATA
               /\ itc_msg.xferred = Len(r) - 2
               /\ itc_msg.xferred < itc_msg.length
               /\ CountPrim("shift_out") = (Len(r) - 2) + 1 + 1
               /\ LastPrim = "stop"
               /\ CountPrim("stop") = 1

\* C3 witness: two bytes staged, the first acknowledged, the second not.
C3_Witness ==
    /\ call.op = "endTransmission"
    /\ call.ret = I2C_NACK_DATA
    /\ itc_msg.length = 2
    /\ itc_msg.xferred = 1

\* The primitives of a read of n bytes whose address byte is acknowledged:
\* after the address phase, n shift-ins, each but the last followed by an
\* acknowledge and the last by a not-acknowledge, then the stop.
ReadShape(n) ==
    /\ Len(prims) = 3 + 2 * n + 1
    /\ \A k \in 1 .. n :
           /\ prims[3 + 2 * k - 1][1] = "shift_in"
           /\ prims[3 + 2 * k][1] = IF k < n THEN "send_ack" ELSE "send_nack"
    /\ prims[3 + 2 * n + 1][1] = "stop"

\* C4: a requestFrom of count bytes whose address byte is acknowledged
\* shifts in exactly count bytes (at most the capacity), acknowledges each
\* but the last, does not acknowledge the last, and sends nothing after
\* that but the stop.
C4_ReadTermination ==
    (/\ call.op = "requestFrom"
     /\ Returned
     /\ ~AddrNacked(wire))
        => /\ itc_msg.length = IF call.arg > I2C_TXRX_BUFFER_SIZE
                               THEN I2C_TXRX_BUFFER_SIZE ELSE call.arg
           /\ CountPrim("shift_in") = itc_msg.length
           /\ ReadShape(itc_msg.length)

\* C4 witness: two bytes requested and received.
C4_Witness ==
    /\ call.op = "requestFrom"
    /\ call.arg = 2
    /\ call.status = I2C_OK
    /\ CountPrim("shift_in") = 2
    /\ CountPrim("send_ack") = 1
    /\ CountPrim("send_nack") = 1

\* C5: a write into a full tx buffer sets the overflow flag and changes
\* neither the buffer, nor the index, nor the descriptor length; an
\* endTransmission with the flag set returns I2C_DATA_TOO_LONG and writes
\* and reads no line.
C5_OverflowFailSoft ==
    [][ /\ (call'.op = "write" /\ tx_buf_idx = I2C_TXRX_BUFFER_SIZE)
            => /\ tx_buf_overflow'
               /\ tx_buf' = tx_buf
               /\ tx_buf_idx' = tx_buf_idx
               /\ itc_msg' = itc_msg
        /\ (call'.op = "write" /\ tx_buf_idx < I2C_TXRX_BUFFER_SIZE)
            => /\ tx_buf_overflow' = tx_buf_overflow
               /\ tx_buf_idx' = tx_buf_idx + 1
        /\ (call'.op = "endTransmission" /\ tx_buf_overflow)
            => /\ call'.ret = I2C_DATA_TOO_LONG
               /\ ~call'.ran
               /\ LineOps(wire') = 0
               /\ wire' = << >>
               /\ prims' = << >>
               /\ scl' = scl
               /\ sda' = sda ]_vars

\* C5 witness: endTransmission returned I2C_DATA_TOO_LONG.
C5_Witness ==
    /\ call.op = "endTransmission"
    /\ call.ret = I2C_DATA_TOO_LONG
    /\ tx_buf_overflow
    /\ tx_buf_idx = I2C_TXRX_BUFFER_SIZE
    /\ wire = << >>

\* C6: a beginTransmission that follows a transaction rejected with
\* I2C_DATA_TOO_LONG resets the tx index and the overflow flag, so that the
\* new transaction is not rejected in its turn.
C6_ResetOnBeginTransmission ==
    [][ (/\ call.op = "endTransmission"
         /\ call.ret = I2C_DATA_TOO_LONG
         /\ call'.op = "beginTransmission")
            => (tx_buf_idx' = 0 /\ ~tx_buf_overflow') ]_vars

\* C7: in every reachable state xferred <= length and length is at most the
\* buffer capacity.
C7_CountWithinLength ==
    /\ itc_msg.xferred <= itc_msg.length
    /\ itc_msg.length <= I2C_TXRX_BUFFER_SIZE

\* C8: every received byte is stored inside rx_buf and rx_buf_len never
\* exceeds the capacity.
C8_ReadWithinCapacity ==
    /\ ~fault
    /\ rx_buf_len <= I2C_TXRX_BUFFER_SIZE

\* C9: beginTransmission points the descriptor at the next free slot of
\* tx_buf with length 0 and write stores each staged byte in the next slot
\* and counts it; if the slave
\* acknowledges the address and every data byte, endTransmission returns
\* I2C_OK with xferred = length, and the data levels at the rising clock
\* edges are the address byte and then the staged bytes in staging order,
\* each most significant bit first and followed by a released acknowledge
\* slot, and finally the low data line of the stop condition.
C9_WriteRoundTrip ==
    [][ /\ call'.op = "beginTransmission"
            => /\ itc_msg'.addr = call'.arg
               /\ itc_msg'.data = [ buf |-> "tx", off |-> tx_buf_idx ]
               /\ itc_msg'.length = 0
               /\ tx_buf' = tx_buf
        /\ (call'.op = "write" /\ tx_buf_idx < I2C_TXRX_BUFFER_SIZE)
            => /\ tx_buf' = [ tx_buf EXCEPT ![tx_buf_idx] = call'.arg ]
               /\ tx_buf_idx' = tx_buf_idx + 1
               /\ itc_msg'.length = itc_msg.length + 1
               /\ itc_msg'.data = itc_msg.data
        /\ (/\ call'.op = "endTransmission"
            /\ call'.ran
            /\ ~fault'
            /\ AllAcked(wire'))
            => /\ call'.ret = I2C_OK
               /\ itc_msg'.xferred = itc_msg.length
               /\ tx_buf_idx' = 0
               /\ RisingLevels(wire')
                    = Frames(<< (2 * itc_msg.addr) % 256 >>
                             \o Pointed(tx_buf, itc_msg.data, itc_msg.length))
                      \o << LOW >> ]_vars

\* C9 witness: the bytes 0x01, 0xB2 staged in this order for address 0x7F
\* and both acknowledged.
C9_Witness ==
    /\ call.op = "endTransmission"
    /\ call.ret = I2C_OK
    /\ itc_msg.addr = 127
    /\ itc_msg.data = [ buf |-> "tx", off |-> 0 ]
    /\ itc_msg.xferred = 2
    /\ tx_buf[0] = 1
    /\ tx_buf[1] = 178

\* C10: for every address 0 .. 127 the first byte shifted out after the
\* start condition is 2 * address + 1 for a read and 2 * address for a
\* write.
C10_AddressByte ==
    call.ran
        => LET rw == IF call.op \in {"requestFrom", "process read"} THEN 1 ELSE 0
           IN  /\ itc_msg.addr \in 0 .. 127
               /\ prims[1][1] = "start"
               /\ prims[2] = << "shift_out", 2 * itc_msg.addr + rw >>
               /\ SubSeq(RisingLevels(wire), 1, 8) = Bits8(2 * itc_msg.addr + rw)

\* C10 witness: a read from address 127 shifts out 0xFF.
C10_Witness ==
    /\ call.op = "requestFrom"
    /\ itc_msg.addr = 127
    /\ prims[2] = << "shift_out", 255 >>

\* The k-th byte the master sampled in a read: the samples after the
\* acknowledge of the address byte, eight per byte, the first one worth 128.
SampledByte(w, k) ==
    LET r == Reads(w)
        bit(j) == Val(r[1 + 8 * (k - 1) + j])
    IN  bit(1) * 128 + bit(2) * 64 + bit(3) * 32 + bit(4) * 16
        + bit(5) * 8 + bit(6) * 4 + bit(7) * 2 + bit(8)

\* C11: a requestFrom issued with nothing unread leaves the n bytes it
\* received, in receive order, at the read cursor with available() = n;
\* each read() with bytes available returns the byte at the cursor and
\* leaves one byte less available, the rest unchanged; a read() with
\* nothing available returns 0 and leaves rx_buf_idx = rx_buf_len = 0, so
\* available() = 0.
C11_DrainThenSentinel ==
    [][ /\ (/\ call'.op = "requestFrom"
            /\ rx_buf_idx = 0
            /\ rx_buf_len = 0
            /\ ~fault')
            => /\ rx_buf_idx' = 0
               /\ rx_buf_len' = itc_msg'.xferred
               /\ available' = itc_msg'.xferred
               /\ \A k \in 1 .. itc_msg'.xferred :
                      rx_buf'[k - 1] = SampledByte(wire', k)
        /\ (/\ call'.op = "read"
            /\ rx_buf_idx < rx_buf_len
            /\ ~fault')
            => /\ call'.ret = rx_buf[rx_buf_idx]
               /\ rx_buf' = rx_buf
               /\ available' = available - 1
               /\ IF available' = 0
                  THEN rx_buf_idx' = rx_buf_len'
                  ELSE rx_buf_idx' = rx_buf_idx + 1 /\ rx_buf_len' = rx_buf_len
        /\ (/\ call'.op = "read"
            /\ rx_buf_idx = rx_buf_len)
            => /\ call'.ret = 0
               /\ rx_buf_idx' = 0
               /\ rx_buf_len' = 0
               /\ available' = 0
               /\ ~fault' ]_vars

\* C11 witness: the bytes 0x01, 0xB2 were received in this order and the
\* read() that returned the second one left nothing available.
C11_Witness ==
    /\ call.op = "read"
    /\ call.ret = 178
    /\ rx_buf[0] = 1
    /\ rx_buf[1] = 178
    /\ available = 0

\* C12: the value requestFrom returns is the value available() returns
\* right after it.
C12_ReturnIsAvailable ==
    (call.op = "requestFrom" /\ ~fault) => call.ret = available

\* C13: after begin() both pins are open-drain outputs, the master has
\* released the clock line and the data line, its last poll of the clock
\* read high, and tx_buf_idx, tx_buf_overflow, rx_buf_idx and rx_buf_len
\* are reset, whatever the state begin() was called in.
C13_BeginResets ==
    call.op = "begin"
        => /\ pinmode = "OUTPUT_OPEN_DRAIN"
           /\ scl = HIGH
           /\ sda = HIGH
           /\ ClockReads(wire) # << >>
           /\ Val(ClockReads(wire)[Len(ClockReads(wire))]) = 1
           /\ tx_buf_idx = 0
           /\ ~tx_buf_overflow
           /\ rx_buf_idx = 0
           /\ rx_buf_len = 0

\* C13 witness: begin() returned in a state whose descriptor still shows a
\* transaction that overflowed the tx buffer and a read that moved bytes.
C13_Witness ==
    /\ call.op = "begin"
    /\ itc_msg.length = MaxLength
    /\ itc_msg.xferred > 0
    /\ tx_buf_idx = 0
    /\ ~tx_buf_overflow
    /\ sda = HIGH

\* C14: every run of process() issues one start and exactly one
\* terminating primitive, stop or repeated start, as its last primitive; on
\* I2C_OK it is stop if the stop argument is true and repeated start
\* otherwise, on a missing acknowledge it is stop; endTransmission and
\* requestFrom always end with stop.
C14_OneTerminator ==
    Returned
        => /\ CountPrim("start") = 1
           /\ prims[1][1] = "start"
           /\ CountPrim("stop") + CountPrim("repeated_start") = 1
           /\ LastPrim \in {"stop", "repeated_start"}
           /\ call.status = I2C_OK
                => LastPrim = IF call.stop THEN "stop" ELSE "repeated_start"
           /\ call.status # I2C_OK => LastPrim = "stop"
           /\ call.op \in {"endTransmission", "requestFrom"}
                => call.stop /\ LastPrim = "stop"

\* C14 witness: a write of one acknowledged byte by process(false) ended
\* with a repeated start.
C14_Witness ==
    /\ call.op = "process write"
    /\ ~call.stop
    /\ call.status = I2C_OK
    /\ itc_msg.xferred = 1
    /\ LastPrim = "repeated_start"
    /\ CountPrim("stop") = 0

\* C15: whenever process() is entered, and so calls i2c_start(), the master
\* has both the clock line and the data line high.
C15_StartFromIdle ==
    [][ call'.ran => (scl = HIGH /\ sda = HIGH) ]_vars


\* C15 as amended: whenever process() is entered the master has the clock
\* line high; between calls it holds the data line low only from a
\* process(false) that returned I2C_OK, and so ended with a repeated start,
\* until the next process() or begin(); otherwise the data line is high
\* when process() is entered.
C15_StartAfterTerminator ==
    [][ /\ call'.ran => scl = HIGH
        /\ sda' = LOW
             => \/ /\ call'.ran
                   /\ ~call'.stop
                   /\ call'.status = I2C_OK
                   /\ LastPrim' = "repeated_start"
                \/ /\ sda = LOW
                   /\ ~call'.ran
                   /\ call'.op # "begin"
        /\ (call'.ran /\ sda = LOW)
             => /\ wire'[2] = Ev(WSDA, LOW)
                /\ wire'[4] = Ev(WSCL, LOW) ]_vars

\* C15 witness: process(false) has returned I2C_OK, and the next process()
\* is entered with the clock line high and the data line low.
C15_Witness ==
    /\ Ready
    /\ call.ran
    /\ ~call.stop
    /\ call.status = I2C_OK
    /\ scl = HIGH
    /\ sda = LOW

\* C16: the operation that follows a write of high to the clock line, or a
\* poll of the clock line that read low, is a poll of the clock line; the
\* clock line is polled nowhere else; and every sample of the data line
\* comes right after a poll of the clock line that read high.
C16_WaitForClock ==
    \A i \in DOMAIN wire :
        /\ (wire[i] = Ev(WSCL, HIGH) \/ wire[i] = Ev(RSCL, 0))
             => (i < Len(wire) /\ Kind(wire[i + 1]) = RSCL)
        /\ Kind(wire[i]) = RSCL
             => (i > 1 /\ wire[i - 1] \in {Ev(WSCL, HIGH), Ev(RSCL, 0)})
        /\ Kind(wire[i]) = RSDA
             => (i > 1 /\ wire[i - 1] = Ev(RSCL, 1))

\* C16 witness: a requestFrom that received a byte from a slave that held
\* the clock low after the master released it.
C16_Witness ==
    /\ call.op = "requestFrom"
    /\ itc_msg.xferred >= 1
    /\ \E i \in DOMAIN wire : wire[i] = Ev(RSCL, 0)
    /\ Len(Reads(wire)) >= 9

\* C17: with a processor that keeps running and a slave that releases the
\* clock line in the end, every process() that was entered returns; and as
\* long as the slave holds the clock line while the master polls it after
\* writing it high, process() does not return and the master writes no line.
C17_ReturnsUnlessHeld ==
    /\ (run.pc = "running") ~> (run.pc = "idle" /\ call.status # NoReturn)
    /\ [][ (Waiting /\ run.held /\ run'.held)
             => /\ run'.pc = "running"
                /\ run'.todo = run.todo
                /\ call'.status = NoReturn
                /\ wire' = wire
                /\ scl' = scl
                /\ sda' = sda ]_vars

\* C17 witness: inside a process() that has not returned, the master has
\* polled the clock line low and the slave still holds it.
C17_Witness ==
    /\ Waiting
    /\ run.held
    /\ run.low
    /\ call.status = NoReturn
    /\ scl = HIGH

LineWrites(w) == SelectSeq(w, LAMBDA e : Kind(e) \in {WSCL, WSDA})

\* The level the master drives on the line written by operations of kind
\* kind after the first i of the line writes f, from the level init.
RECURSIVE LineBefore(_, _, _, _)
LineBefore(f, i, kind, init) ==
    IF i = 0 THEN init
    ELSE IF Kind(f[i]) = kind THEN Val(f[i])
    ELSE LineBefore(f, i - 1, kind, init)

\* C19: in a run of process(), a write that changes the level of the data
\* line while the master has the clock line high is either the first line
\* write of the run, the fall of i2c_start, or the last one, the rise of
\* i2c_stop or the fall of i2c_repeated_start; every other change of the
\* data line is made while the clock line is low.
C19_DataStableWhileClockHigh ==
    [][ (call'.ran /\ ~fault')
          => \E f \in { LineWrites(wire') } :
                 \A i \in DOMAIN f :
                     (/\ Kind(f[i]) = WSDA
                      /\ Val(f[i]) # LineBefore(f, i - 1, WSDA, sda)
                      /\ LineBefore(f, i - 1, WSCL, scl) = HIGH)
                        => \/ /\ i = 1
                              /\ Val(f[i]) = LOW
                              /\ prims'[1][1] = "start"
                           \/ /\ i = Len(f)
                              /\ LastPrim' = "stop"
                              /\ Val(f[i]) = HIGH
                           \/ /\ i = Len(f)
                              /\ LastPrim' = "repeated_start"
                              /\ Val(f[i]) = LOW ]_vars

\* C19 witness: a read of two bytes, acknowledged by the master in between,
\* that ended with a stop.
C19_Witness ==
    /\ call.op = "requestFrom"
    /\ call.status = I2C_OK
    /\ itc_msg.xferred = 2
    /\ CountPrim("send_ack") = 1
    /\ LastPrim = "stop"
    /\ sda = HIGH

\* C20: in every state reached by begin, requestFrom and read without an
\* access outside the buffers, the read cursor never passes the number of
\* bytes held, and so available() is their difference without wrapping.
C20_CursorWithinLength ==
    ~fault => /\ rx_buf_idx <= rx_buf_len
              /\ available = rx_buf_len - rx_buf_idx

=============================================================================
